---- MODULE Spec2Model ----
(***************************************************************************)
(* Model of the trial orchestration (run_trials, run_torch, run_sklearn)   *)
(* and of the training loop (train, test) of src/model/train.py.           *)
(*                                                                         *)
(* A model is an object with parameters; parameters are abstracted to a    *)
(* version number that is fresh for every optimizer step, so that two      *)
(* models hold the same parameters iff they hold the same version.  The    *)
(* model file out_flp holds a version or NoFile.  Accuracies are exact     *)
(* fractions <<numerator, denominator>>.  Losses are small naturals, the   *)
(* percent-improvement test is evaluated exactly by cross multiplication.  *)
(***************************************************************************)
EXTENDS Integers, Sequences, FiniteSets, TLC

\* ---------------------------------------------------------------- bounds
MaxEpochs == 2
MaxBchs == 2
MaxPatience == 2
MaxLoss == 3
MaxTime == 2
MaxTrials == 2
MaxAttempts == 3
MaxTst == 2
MaxSims == 2
MaxRows == 2
MaxExps == 5
MaxFets == 2
MaxCnfs == 2
MaxBchsEpc == 17

\* ------------------------------------------------------ program constants
VALS_PER_EPC == 15

\* ------------------------------------------------------------ value sets
NoFile == -1
None == -1
\* Percent thresholds tried for val_improvement_thresh (a float option).
ThreshSet == {-60, 0, 50}
\* Summed validation losses the model capability can produce.
Losses == 0..MaxLoss
\* Training durations (seconds) measured by run_torch / run_sklearn.
Durations == 1..2
\* Accuracies the external sklearn-style test method can hand back; 100 is
\* the value run_trials compares against.
SklearnAccs == {<<0, 1>>, <<1, 2>>, <<1, 1>>, <<100, 1>>}

VARIABLES
    entry,        \* "run_trials": the whole orchestrator; "train": train() called on its own
    args,         \* the run configuration
    pc,           \* position in the program
    out_flp,      \* content of the model file: a parameter version, or NoFile
    trls,         \* run_trials: successful trials still wanted
    apts,         \* run_trials: attempts made
    ress,         \* run_trials: results of the successful runs
    res,          \* run_trials: result of the last run
    ret,          \* run_trials: returned value
    objs,         \* parameters of every model object created in this run
    net_net,      \* net.net: index of the live model object
    opt,          \* index of the object whose parameters the optimizer holds (0: none)
    ver,          \* next fresh parameter version
    ldr_val,      \* "loader" or "None"
    num_bchs_trn, \* len(ldr_trn)
    los_val_min,  \* train: best validation loss, or None
    los_val,      \* train: loss of the last validation pass
    val_pat,      \* train: remaining patience
    epoch_idx,    \* train: epoch index
    bch_idx_trn,  \* train: batch index
    now,          \* seconds elapsed since train started
    stop_reason,  \* history: why train left its loop
    num_vals,     \* history: validation passes completed by this train call
    num_bchs_run, \* history: training batches run by this train call
    improved,     \* history: some validation pass of this train call passed the improvement test
    ckpt_written, \* history: this train call wrote out_flp
    rolled_back,  \* history: this train call reloaded the model from out_flp
    all_degen,    \* history: every run that returned so far returned accuracy 100
    runs_returned,\* history: number of runs that returned to run_trials
    tested,       \* history: parameter version that test() evaluated last
    sims,         \* the simulation sources, in the order make_datasets passes them on
    dat_all,      \* make_datasets: the result of process_sim for every source
    discards,     \* make_datasets: the printed number of discarded simulations (-1: none printed)
    ds,           \* the dataset make_datasets returns
    dat_flp,      \* data.npz: "absent", "old" (found on entry) or "new" (written by gen_data)
    scl_prms_flp, \* scale_params.json: "absent", "old" or "new"
    parts,        \* split_data: the shuffled rows and the three partitions
    scl_in,       \* scale_fets: the arguments of a direct call
    scl_out,      \* scale_fets: what the direct call returned
    files,        \* the files written so far: path -> writers and content
    cnfs,         \* run_cnfs: the configurations and how far each has run
    rng,          \* numpy's global generator: the seeded stream, each process's position
    tst,          \* test: the loader, the model's mode, the counters, the accuracy
    err           \* the exception that ended the program ("" when none)

vars == <<entry, args, pc, out_flp, trls, apts, ress, res, ret, objs, net_net,
          opt, ver, ldr_val, num_bchs_trn, los_val_min, los_val, val_pat,
          epoch_idx, bch_idx_trn, now, stop_reason, num_vals, num_bchs_run,
          improved, ckpt_written, rolled_back, all_degen, runs_returned,
          tested, sims, dat_all, discards, ds, dat_flp, scl_prms_flp, parts,
          scl_in, scl_out, files, cnfs, rng, tst, err>>

trainVars == <<los_val_min, los_val, val_pat, epoch_idx, bch_idx_trn, now,
               stop_reason, num_vals, num_bchs_run, improved, ckpt_written,
               rolled_back>>
trialVars == <<trls, apts, ress, res, ret, all_degen, runs_returned>>
modelVars == <<objs, net_net, opt, ver>>
dataVars == <<sims, dat_all, discards, ds, dat_flp, scl_prms_flp, parts,
              scl_in, scl_out, files, cnfs, rng, tst, err>>

\* ------------------------------------------------------------- helpers
Min(a, b) == IF a < b THEN a ELSE b

\* math.ceil(a / b) for a >= 0, b > 0.
Ceil(a, b) == (a + b - 1) \div b

BchsPerValFloor(n) == IF n < VALS_PER_EPC THEN 1 ELSE n \div VALS_PER_EPC

\* bchs_per_val = math.ceil(num_bchs_trn / VALS_PER_EPC)
BchsPerVal(n) == Ceil(n, VALS_PER_EPC)

\* a < b, a = b for fractions with positive denominators.
FracLess(a, b) == a[1] * b[2] < b[1] * a[2]
FracEq(a, b) == a[1] * b[2] = b[1] * a[2]

NoRes == [acc |-> <<0, 1>>, tim |-> 0]
NoRet == [set |-> FALSE, nan |-> FALSE, err |-> <<0, 1>>, tim |-> 0]

DegenerateNever(r) == FALSE

\* res[0] == 100
Degenerate(r) == r.acc[1] = 100 * r.acc[2]

WhileCondOffByOne(t, a, amax) == t > 0 /\ a + 1 < amax

\* while trls > 0 and apts < apts_max
WhileCond(t, a, amax) == t > 0 /\ a < amax

BestResultLastDuration(rs) ==
    LET i == CHOOSE k \in 1..Len(rs) :
                 \A j \in 1..Len(rs) : ~FracLess(rs[k].acc, rs[j].acc)
    IN [acc |-> rs[i].acc, tim |-> rs[Len(rs)].tim]

\* max(ress, key=lambda p: p[0]): the first element with the largest accuracy.
BestResult(rs) ==
    LET i == CHOOSE k \in 1..Len(rs) :
                 /\ \A j \in 1..Len(rs) : ~FracLess(rs[k].acc, rs[j].acc)
                 /\ \A j \in 1..(k - 1) : FracLess(rs[j].acc, rs[k].acc)
    IN rs[i]

\* The value run_trials returns.
Report(rs) ==
    IF rs # <<>>
    THEN LET b == BestResult(rs)
         IN [set |-> TRUE, nan |-> FALSE,
             err |-> <<b.acc[2] - b.acc[1], b.acc[2]>>, tim |-> b.tim]
    ELSE [set |-> TRUE, nan |-> TRUE, err |-> <<0, 1>>, tim |-> 0]

ImprovedGe(best, cur, thresh) == (best - cur) * 100 >= thresh * best

\* prc = (los_val_min - los_val) / los_val_min * 100;  prc > val_imp_thresh
\* (best > 0; best = 0 raises ZeroDivisionError before the test is made).
Improved(best, cur, thresh) == (best - cur) * 100 > thresh * best

TimedOutNoDisable(tim_out_s, tim_del_s) == tim_del_s > tim_out_s

\* tim_out_s != 0 and tim_del_s > tim_out_s
TimedOut(tim_out_s, tim_del_s) == tim_out_s # 0 /\ tim_del_s > tim_out_s

PatienceExhaustedLt(p) == p < 0

\* if val_pat <= 0
PatienceExhausted(p) == p <= 0

\* Where train returns to.
TrainReturn == IF entry = "train" THEN "done" ELSE "rt_load"

\* The step after a batch (and its validation pass): next batch or next epoch.
NextBatch ==
    IF bch_idx_trn + 1 < num_bchs_trn
    THEN /\ bch_idx_trn' = bch_idx_trn + 1
         /\ epoch_idx' = epoch_idx
         /\ pc' = "batch"
    ELSE /\ bch_idx_trn' = 0
         /\ epoch_idx' = epoch_idx + 1
         /\ pc' = "epoch"

\* ------------------------------------------------------ exact arithmetic
Abs(x) == IF x < 0 THEN -x ELSE x

RECURSIVE Gcd(_, _)
Gcd(a, b) == IF b = 0 THEN a ELSE Gcd(b, a % b)

\* Fractions <<numerator, denominator>> in lowest terms, denominator > 0.
FNorm(f) ==
    IF f[1] = 0 THEN <<0, 1>>
    ELSE LET g == Gcd(Abs(f[1]), f[2]) IN <<f[1] \div g, f[2] \div g>>

FInt(x) == <<x, 1>>
FAdd(a, b) == FNorm(<<a[1] * b[2] + b[1] * a[2], a[2] * b[2]>>)
FSub(a, b) == FNorm(<<a[1] * b[2] - b[1] * a[2], a[2] * b[2]>>)
FMul(a, b) == FNorm(<<a[1] * b[1], a[2] * b[2]>>)
\* a / b for b # 0.
FDivide(a, b) ==
    IF b[1] > 0 THEN FNorm(<<a[1] * b[2], a[2] * b[1]>>)
    ELSE FNorm(<<-(a[1] * b[2]), -(a[2] * b[1])>>)

RECURSIVE FSum(_)
FSum(s) == IF s = <<>> THEN <<0, 1>> ELSE FAdd(s[1], FSum(Tail(s)))

\* np.mean of a non-empty column.
Mean(col) == FDivide(FSum(col), FInt(Len(col)))

\* The square of np.std: the population variance.
Variance(col) ==
    LET m == Mean(col)
    IN Mean([k \in 1..Len(col) |-> FMul(FSub(col[k], m), FSub(col[k], m))])

ColMin(col) ==
    col[CHOOSE k \in 1..Len(col) : \A j \in 1..Len(col) : ~FracLess(col[j], col[k])]
ColMax(col) ==
    col[CHOOSE k \in 1..Len(col) : \A j \in 1..Len(col) : ~FracLess(col[k], col[j])]

RECURSIVE Concat(_)
Concat(ss) == IF ss = <<>> THEN <<>> ELSE ss[1] \o Concat(Tail(ss))

\* ------------------------------------------------------------ scale_fets
\* A scaled value is num / sqrt(rad): rad is <<1, 1>> in range mode and the
\* variance in standardize mode.  rad = <<0, 1>> is a division by zero, which
\* numpy evaluates to nan or inf with a warning, never to an exception.
Zero == [num |-> <<0, 1>>, rad |-> <<1, 1>>]

\* utils.scale(x, min_in, max_in, min_out=0, max_out=1)
UtilsScale(x, min_in, max_in) ==
    IF FracEq(min_in, max_in)
    THEN [num |-> FSub(x, min_in), rad |-> <<0, 1>>]
    ELSE [num |-> FDivide(FSub(x, min_in), FSub(max_in, min_in)), rad |-> <<1, 1>>]

ScaleValueNoGuard(x, prm_1, prm_2, standardize) ==
    IF standardize
    THEN [num |-> FSub(x, prm_1), rad |-> prm_2]
    ELSE UtilsScale(x, prm_1, prm_2)

\* Lines 97-115, for one value of the feature.  In standardize mode prm_2
\* holds the variance, so prm_2 == 0 is the test of the standard deviation.
ScaleValue(x, prm_1, prm_2, standardize) ==
    IF standardize
    THEN IF prm_2[1] = 0 THEN Zero
         ELSE [num |-> FSub(x, prm_1), rad |-> prm_2]
    ELSE IF FracEq(prm_1, prm_2) THEN Zero
         ELSE UtilsScale(x, prm_1, prm_2)

\* All values of the columns fets of dat, pooled (utils.clean / rdc).
Pooled(dat, fets) ==
    Concat([r \in 1..Len(dat) |-> SelectSeq(
        [f \in 1..Len(dat[r]) |-> IF f \in fets THEN <<dat[r][f]>> ELSE <<>>],
        LAMBDA c : c # <<>>)])

GrpPrmsFirstColumn(dat, fets, standardize) ==
    LET first == {CHOOSE f \in fets : \A h \in fets : f <= h}
        pooled == Pooled(dat, first)
        col == [k \in 1..Len(pooled) |-> pooled[k][1]]
    IN IF standardize THEN <<Mean(col), Variance(col)>>
       ELSE <<ColMin(col), ColMax(col)>>

\* Lines 76-84: the two parameters of one scaling group.
GrpPrms(dat, fets, standardize) ==
    LET pooled == Pooled(dat, fets)
        col == [k \in 1..Len(pooled) |-> pooled[k][1]]
    IN IF standardize THEN <<Mean(col), Variance(col)>>
       ELSE <<ColMin(col), ColMax(col)>>

\* scl_grps_prms[scl_grp] of an array with num_grps rows: the row (from 1)
\* that numpy addresses, 0 when the index is out of bounds (IndexError).
PrmsRow(scl_grp, num_grps) ==
    IF scl_grp >= 0 /\ scl_grp < num_grps THEN scl_grp + 1
    ELSE IF scl_grp < 0 /\ scl_grp >= -num_grps THEN scl_grp + num_grps + 1
    ELSE 0

\* scale_fets(dat, scl_grps, standardize) for a non-empty dat of num_fets
\* columns: the exception raised, or the scaled copy and the parameters of
\* every column.
ScaleFets(dat, num_fets, scl_grps, standardize) ==
    LET unique == {scl_grps[f] : f \in 1..Len(scl_grps)}
        num_grps == Cardinality(unique)
        row(g) == PrmsRow(g, num_grps)
        \* the group whose parameters a row holds after the first loop
        holder(r) == CHOOSE g \in unique : row(g) = r
        prms == [f \in 1..num_fets |->
                   GrpPrms(dat, {h \in 1..num_fets :
                                   scl_grps[h] = holder(row(scl_grps[f]))},
                           standardize)]
    IN IF Len(scl_grps) # num_fets
       THEN [err |-> "AssertionError", new |-> <<>>, scl_prms |-> <<>>]
       ELSE IF \E g \in unique : row(g) = 0
       THEN [err |-> "IndexError", new |-> <<>>, scl_prms |-> <<>>]
       ELSE [err |-> "",
             new |-> [r \in 1..Len(dat) |-> [f \in 1..num_fets |->
                        ScaleValue(dat[r][f], prms[f][1], prms[f][2], standardize)]],
             scl_prms |-> prms]

\* No file has been written: the empty map from paths to files.
NoFiles == <<>>

\* The generator where the model leaves the seed open.
NoRng == [stream |-> <<>>, pos |-> <<>>]

\* No test is running: a model is in training mode unless put in another.
NoTest == [ldr |-> <<>>, mode |-> "train", modes |-> <<>>, bch_idx |-> 0,
           num_correct |-> 0, total |-> 0, acc |-> None]

NoScaleIn == [dat |-> <<>>, num_fets |-> 0, scl_grps |-> <<>>, standardize |-> FALSE]
NoScaleOut == [err |-> "", new |-> <<>>, scl_prms |-> <<>>]

\* ----------------------------------------------------------- process_sim
ValSet == {-1, 1}
BadKinds == {"load_fail", "non_finite_in", "non_finite_out", "bad_class"}

\* The rows of a parsed simulation: one input feature, -1 for "unknown".
RowSeqs == UNION {[1..n -> ValSet] : n \in 1..MaxRows}

SimShapes == {<<k, <<1>>>> : k \in BadKinds} \cup {<<"ok", r>> : r \in RowSeqs}

\* Sequences of at most max simulations; simulation s has s + 1 flows.
SimSeqs(max) ==
    UNION {{[s \in 1..n |-> [kind |-> c[s][1], rows |-> c[s][2], flws |-> s + 1]] :
              c \in [1..n -> SimShapes]} : n \in 0..max}

Pending == [st |-> "pending", in |-> <<>>, out |-> <<>>, raw |-> <<>>, oracle |-> <<>>]
Discarded == [st |-> "none", in |-> <<>>, out |-> <<>>, raw |-> <<>>, oracle |-> <<>>]

NumAfterWarmupFloorKept(n, warmup_prc) == (n * (100 - warmup_prc)) \div 100

\* dat[math.floor(dat.shape[0] * warmup_prc / 100):] keeps this many rows.
NumAfterWarmup(n, warmup_prc) == n - ((n * warmup_prc) \div 100)

\* num_to_pick = math.ceil(num_rows * keep_prc / 100)
NumToPick(num_rows, keep_prc) == Ceil(num_rows * keep_prc, 100)

\* Lines 142-198 for simulation s: the rows after the warmup, picked at idxs.
\* Every array entry carries the <<simulation, row>> pair it was read from.
Processed(s, sim, warmup_prc, idxs) ==
    LET start == Len(sim.rows) - NumAfterWarmup(Len(sim.rows), warmup_prc)
        src(k) == <<s, start + idxs[k]>>
    IN [st |-> "ok",
        in |-> [k \in 1..Len(idxs) |->
                   [id |-> src(k), fets |-> <<FInt(sim.rows[start + idxs[k]])>>]],
        out |-> [k \in 1..Len(idxs) |-> src(k)],
        raw |-> [k \in 1..Len(idxs) |-> src(k)],
        oracle |-> [k \in 1..Len(idxs) |-> src(k)]]

\* np.random.random_integers(0, num_rows - 1, num_to_pick), counted from 1.
IdxChoices(num_rows, num_to_pick) == [1..num_to_pick -> 1..num_rows]

\* --------------------------------------------------------- make_datasets
EmptyDs == [in |-> <<>>, out |-> <<>>, raw |-> <<>>, oracle |-> <<>>,
            flws |-> <<>>, orig |-> <<>>, rep |-> <<>>, scl_prms |-> <<>>]

ErrNoSims == "AssertionError: No valid simulations found!"
ErrFoundUnknown == "AssertionError: Found -1 in feature"
ErrOnlyUnknown == "AssertionError: Features contain only -1"
ErrInvalidClass == "AssertionError: Invalid class"

Unknown == <<-1, 1>>

SurvivorsUntilFailure(d) ==
    SelectSeq([s \in 1..Len(d) |-> s],
              LAMBDA s : \A j \in 1..s : d[j].st = "ok")

\* dat_all = [dat for dat in dat_all if dat is not None]
Survivors(d) == SelectSeq([s \in 1..Len(d) |-> s], LAMBDA s : d[s].st = "ok")

Column(rows, f) == [k \in 1..Len(rows) |-> rows[k].fets[f]]

\* np.mean(fet_values): the mean of the whole column, sentinels included.
RepairMean(col) == Mean(col)

\* np.where(fet_values == -1, np.mean(fet_values), fet_values)
RepairCol(col) ==
    LET mean == RepairMean(col)
    IN [k \in 1..Len(col) |-> IF col[k] = Unknown THEN mean ELSE col[k]]

AllUnknown(col) == \A k \in 1..Len(col) : col[k] = Unknown

\* Lines 254-348 on the results of process_sim: the printed discard count,
\* the exception raised, or the assembled, repaired and scaled dataset.
MakeDatasets(sims_, dat_all_, standardize) ==
    LET good == Survivors(dat_all_)
        cat(fld) == Concat([k \in 1..Len(good) |-> dat_all_[good[k]][fld]])
        in_all == cat("in")
        num_flws == Concat([k \in 1..Len(good) |->
                       [j \in 1..Len(dat_all_[good[k]].in) |-> sims_[good[k]].flws]])
        num_fets == IF in_all = <<>> THEN 0 ELSE Len(in_all[1].fets)
        fets == 1..num_fets
        bad_fets == {f \in fets : AllUnknown(Column(in_all, f))}
        cols == [f \in fets |-> IF f \in bad_fets THEN Column(in_all, f)
                                 ELSE RepairCol(Column(in_all, f))]
        rep == [k \in 1..Len(in_all) |-> [f \in fets |-> cols[f][k]]]
        \* net.modify_data puts the single input feature in scaling group 0
        scl_grps == [f \in fets |-> 0]
        scl == ScaleFets(rep, num_fets, scl_grps, standardize)
        e == IF good = <<>> THEN ErrNoSims
             ELSE IF \E f \in fets \ bad_fets, k \in 1..Len(rep) : rep[k][f] = Unknown
             THEN ErrFoundUnknown
             ELSE IF bad_fets # {} THEN ErrOnlyUnknown
             ELSE scl.err
    IN [discards |-> Len(dat_all_) - Len(good),
        err |-> e,
        ds |-> IF e # "" THEN EmptyDs
               ELSE [in |-> [k \in 1..Len(in_all) |->
                               [id |-> in_all[k].id, fets |-> scl.new[k]]],
                     out |-> cat("out"), raw |-> cat("raw"),
                     oracle |-> cat("oracle"), flws |-> num_flws,
                     orig |-> [k \in 1..Len(in_all) |-> in_all[k].fets],
                     rep |-> rep, scl_prms |-> scl.scl_prms]]

\* ------------------------------------------------------------ split_data
NoParts == [done |-> FALSE, use_val |-> FALSE, merged |-> <<>>, val |-> <<>>,
            tst |-> <<>>, trn |-> <<>>]

RoundDown(num, den) == num \div den

\* round(num / den) for num >= 0, den > 0: Python rounds a tie to the even
\* neighbour (the products n * 0.2 and n * 0.3 are exact at the ties).
Round(num, den) ==
    LET q == num \div den
        r == num % den
    IN IF 2 * r < den THEN q
       ELSE IF 2 * r > den THEN q + 1
       ELSE IF q % 2 = 0 THEN q ELSE q + 1

\* num_val = int(round(num_exps * 0.2)) if use_val else 0
NumVal(num_exps, use_val) == IF use_val THEN Round(num_exps * 2, 10) ELSE 0

\* num_tst = int(round(num_exps * 0.3))
NumTst(num_exps) == Round(num_exps * 3, 10)

\* s[a:b] for 0 <= a <= b.
Slice(s, a, b) == SubSeq(s, a + 1, Min(b, Len(s)))

Perms(n) == {p \in [1..n -> 1..n] : \A i, j \in 1..n : p[i] = p[j] => i = j}

MergeShuffleInputsOnly(d, perm) ==
    [i \in 1..Len(d.in) |->
        [in |-> d.in[perm[i]], out |-> d.out[i], raw |-> d.raw[i],
         oracle |-> d.oracle[i], flws |-> d.flws[i]]]

\* Lines 389-397: the five arrays merged row by row, the rows shuffled by
\* np.random.shuffle, the columns taken apart again.
Merge(d, perm) ==
    [i \in 1..Len(d.in) |->
        [in |-> d.in[perm[i]], out |-> d.out[perm[i]], raw |-> d.raw[perm[i]],
         oracle |-> d.oracle[perm[i]], flws |-> d.flws[perm[i]]]]

\* The training and validation sets hold inputs and labels only.
InOut(rows) == [i \in 1..Len(rows) |-> [in |-> rows[i].in, out |-> rows[i].out]]

\* Lines 399-416: the three partitions of the shuffled rows.
Partition(merged, use_val) ==
    LET num_exps == Len(merged)
        num_val == NumVal(num_exps, use_val)
        num_tst == NumTst(num_exps)
    IN [done |-> TRUE, use_val |-> use_val, merged |-> merged,
        val |-> InOut(Slice(merged, 0, num_val)),
        tst |-> Slice(merged, num_val, num_val + num_tst),
        trn |-> InOut(Slice(merged, num_val + num_tst, num_exps))]

\* --------------------------------------------------------------- Init
TrainDefaults ==
    [model |-> "sklearn", early_stop |-> FALSE, val_patience |-> 1,
     val_improvement_thresh |-> 0, timeout_s |-> 0, epochs |-> 1,
     conf_trials |-> 1, max_attempts |-> 1, warmup_percent |-> 10,
     keep_percent |-> 50, standardize |-> FALSE, regen_data |-> FALSE,
     sync |-> TRUE]

InitArgs ==
    \/ /\ entry = "run_trials"
       /\ \E ct \in 1..MaxTrials, ma \in 0..MaxAttempts :
            args = [TrainDefaults EXCEPT !.conf_trials = ct, !.max_attempts = ma]
       /\ ldr_val = "None"
       /\ num_bchs_trn = 1
    \/ /\ entry = "run_trials"
       /\ \E es \in BOOLEAN, to \in 0..1, ep \in 1..MaxEpochs,
             ct \in 1..MaxTrials, ma \in 1..2 :
            args = [TrainDefaults EXCEPT !.model = "torch", !.early_stop = es,
                                         !.timeout_s = to, !.epochs = ep,
                                         !.conf_trials = ct, !.max_attempts = ma]
       /\ ldr_val = "None"
       /\ num_bchs_trn \in 1..MaxBchs
    \/ /\ entry = "train"
       /\ \E es \in BOOLEAN, vp \in 1..MaxPatience, th \in ThreshSet,
             to \in 0..1, ep \in 1..MaxEpochs :
            args = [TrainDefaults EXCEPT !.model = "torch", !.early_stop = es,
                                         !.val_patience = vp,
                                         !.val_improvement_thresh = th,
                                         !.timeout_s = to, !.epochs = ep]
       /\ ldr_val \in {"loader", "None"}
       /\ num_bchs_trn \in 1..MaxBchs

InitRest ==
    /\ pc = entry
    /\ trls = 0 /\ apts = 0 /\ ress = <<>> /\ res = NoRes /\ ret = NoRet
    /\ objs = IF entry = "train" THEN <<1>> ELSE <<>>
    /\ net_net = IF entry = "train" THEN 1 ELSE 0
    /\ opt = 0
    /\ ver = 2
    /\ los_val_min = None /\ los_val = None /\ val_pat = 0
    /\ epoch_idx = 0 /\ bch_idx_trn = 0 /\ now = 0
    /\ stop_reason = "none" /\ num_vals = 0 /\ num_bchs_run = 0
    /\ improved = FALSE /\ ckpt_written = FALSE /\ rolled_back = FALSE
    /\ all_degen = TRUE /\ runs_returned = 0 /\ tested = None

GoodSim(s) == [kind |-> "ok", rows |-> <<1>>, flws |-> s + 1]
BadSim(s) == [kind |-> "load_fail", rows |-> <<1>>, flws |-> s + 1]

\* Nothing of the data pipeline has run yet.
DataIdle ==
    /\ dat_all = [s \in 1..Len(sims) |-> Pending]
    /\ discards = -1
    /\ ds = EmptyDs
    /\ parts = NoParts
    /\ scl_in = NoScaleIn
    /\ scl_out = NoScaleOut
    /\ files = NoFiles
    /\ cnfs = <<>>
    /\ rng = NoRng
    /\ tst = NoTest
    /\ err = ""

\* run_trials finds the dataset of an earlier run in the output directory.
InitData ==
    /\ sims = <<>>
    /\ dat_flp = "old"
    /\ scl_prms_flp = "old"
    /\ DataIdle

Init ==
    /\ InitArgs
    /\ InitData
    \* run_trials starts from any content of the output directory; train called
    \* on its own finds the file absent or left by an earlier training.
    /\ out_flp \in {NoFile, 0}
    /\ InitRest

\* ------------------------------------------------------------ run_trials
\* Lines 780-782: both files exist and the data is not to be regenerated.
FoundExistingData ==
    ~args.regen_data /\ dat_flp # "absent" /\ scl_prms_flp # "absent"

\* make_datasets maps process_sim over the simulations (none: nothing to map).
DataStart == IF sims = <<>> THEN "make_datasets" ELSE "process_sim"

\* Where gen_data returns to.
DataReturn ==
    IF entry = "gen_data" THEN "done"
    ELSE IF entry = "gen_split" THEN "split_data"
    ELSE "rt_while"

\* Lines 122-198, 248-253: process_sim on one simulation that has not been
\* processed yet (the next one when the calls are made in sequence).
ProcessSim ==
    /\ pc = "process_sim"
    /\ \E s \in 1..Len(sims) :
         /\ dat_all[s].st = "pending"
         /\ args.sync => \A j \in 1..(s - 1) : dat_all[j].st # "pending"
         /\ LET sim == sims[s]
                num_rows == NumAfterWarmup(Len(sim.rows), args.warmup_percent)
                num_to_pick == NumToPick(num_rows, args.keep_percent)
                last == \A j \in 1..Len(sims) : j # s => dat_all[j].st # "pending"
            IN IF sim.kind = "bad_class"
               THEN /\ pc' = "error"
                    /\ err' = ErrInvalidClass
                    /\ UNCHANGED dat_all
               ELSE /\ pc' = IF last THEN "make_datasets" ELSE "process_sim"
                    /\ err' = err
                    /\ IF sim.kind = "ok"
                       THEN \E idxs \in IdxChoices(num_rows, num_to_pick) :
                              dat_all' = [dat_all EXCEPT ![s] =
                                  Processed(s, sim, args.warmup_percent, idxs)]
                       ELSE dat_all' = [dat_all EXCEPT ![s] = Discarded]
    /\ UNCHANGED <<sims, discards, ds, dat_flp, scl_prms_flp, parts>>
    /\ UNCHANGED <<scl_in, scl_out, files, cnfs, rng>>
    /\ UNCHANGED <<entry, args, out_flp, ldr_val, num_bchs_trn, tested, tst>>
    /\ UNCHANGED trialVars
    /\ UNCHANGED modelVars
    /\ UNCHANGED trainVars

GenDataCaught == "rt_report"

\* Lines 790-793: run_trials calls gen_data outside any try block, so an
\* exception of gen_data ends the program.
GenDataRaises == "error"

GenDataSavesOnFailure ==
    /\ pc = "make_datasets"
    /\ LET r == MakeDatasets(sims, dat_all, args.standardize)
       IN /\ discards' = r.discards
          /\ err' = r.err
          /\ ds' = r.ds
          /\ dat_flp' = "new"
          /\ scl_prms_flp' = "new"
          /\ pc' = DataReturn
    /\ UNCHANGED <<sims, dat_all, parts, scl_in, scl_out, files, cnfs, rng>>
    /\ UNCHANGED <<entry, args, out_flp, ldr_val, num_bchs_trn, tested, tst>>
    /\ UNCHANGED trialVars
    /\ UNCHANGED modelVars
    /\ UNCHANGED trainVars

\* Lines 254-363: make_datasets on the processed simulations, then gen_data
\* saves the dataset and the scaling parameters.  An exception of
\* make_datasets leaves gen_data before anything is saved.
GenData ==
    /\ pc = "make_datasets"
    /\ LET r == MakeDatasets(sims, dat_all, args.standardize)
       IN /\ discards' = r.discards
          /\ err' = r.err
          /\ IF r.err # ""
             THEN /\ pc' = GenDataRaises
                  /\ UNCHANGED <<ds, dat_flp, scl_prms_flp>>
             ELSE /\ ds' = r.ds
                  /\ dat_flp' = "new"
                  /\ scl_prms_flp' = "new"
                  /\ pc' = DataReturn
    /\ UNCHANGED <<sims, dat_all, parts, scl_in, scl_out, files, cnfs, rng>>
    /\ UNCHANGED <<entry, args, out_flp, ldr_val, num_bchs_trn, tested, tst>>
    /\ UNCHANGED trialVars
    /\ UNCHANGED modelVars
    /\ UNCHANGED trainVars

\* Lines 741-803: delete an existing model file, load the data, set up the loop.
RunTrialsStart ==
    /\ pc = "run_trials"
    /\ out_flp' = NoFile
    /\ trls' = args.conf_trials
    /\ apts' = 0
    /\ ress' = <<>>
    /\ pc' = IF FoundExistingData THEN "rt_while" ELSE DataStart
    /\ UNCHANGED dataVars
    /\ UNCHANGED <<entry, args, res, ret, all_degen, runs_returned, tested,
                   ldr_val, num_bchs_trn>>
    /\ UNCHANGED modelVars
    /\ UNCHANGED trainVars

\* Lines 804-811: the loop test, the attempt count, the dispatch on the model kind.
RunTrialsWhile ==
    /\ pc = "rt_while"
    /\ IF WhileCond(trls, apts, args.max_attempts)
       THEN /\ apts' = apts + 1
            /\ pc' = IF args.model = "sklearn" THEN "run_sklearn" ELSE "run_torch"
       ELSE /\ apts' = apts
            /\ pc' = "rt_report"
    /\ UNCHANGED dataVars
    /\ UNCHANGED <<entry, args, out_flp, trls, ress, res, ret, all_degen,
                   runs_returned, tested, ldr_val, num_bchs_trn>>
    /\ UNCHANGED modelVars
    /\ UNCHANGED trainVars

\* Lines 812-817: a run that returned accuracy 100 is retried, any other is kept.
RunTrialsCheck ==
    /\ pc = "rt_check"
    /\ IF Degenerate(res)
       THEN UNCHANGED <<ress, trls>>
       ELSE /\ ress' = Append(ress, res)
            /\ trls' = trls - 1
    /\ pc' = "rt_while"
    /\ UNCHANGED dataVars
    /\ UNCHANGED <<entry, args, out_flp, apts, res, ret, all_degen,
                   runs_returned, tested, ldr_val, num_bchs_trn>>
    /\ UNCHANGED modelVars
    /\ UNCHANGED trainVars

\* Lines 818-826: report the best run, or (NaN, NaN).
RunTrialsReport ==
    /\ pc = "rt_report"
    /\ ret' = Report(ress)
    /\ pc' = "done"
    /\ UNCHANGED dataVars
    /\ UNCHANGED <<entry, args, out_flp, trls, apts, ress, res, all_degen,
                   runs_returned, tested, ldr_val, num_bchs_trn>>
    /\ UNCHANGED modelVars
    /\ UNCHANGED trainVars

\* ----------------------------------------------------------- run_sklearn
\* Lines 628-663: fit, pickle the model to out_flp, test with the model's own
\* test method (an external capability), return (accuracy, duration).
RunSklearn ==
    /\ pc = "run_sklearn"
    /\ \E a \in SklearnAccs, t \in Durations :
         /\ res' = [acc |-> a, tim |-> t]
         /\ all_degen' = (all_degen /\ a[1] = 100 * a[2])
    /\ out_flp' = ver
    /\ ver' = ver + 1
    /\ runs_returned' = runs_returned + 1
    /\ pc' = "rt_check"
    /\ UNCHANGED dataVars
    /\ UNCHANGED <<entry, args, trls, apts, ress, ret, tested, ldr_val,
                   num_bchs_trn, objs, net_net, opt>>
    /\ UNCHANGED trainVars

\* ------------------------------------------------------------- run_torch
\* Lines 673-692: a new network, split_data (called without use_val, so the
\* validation loader is None), then ldr_val.dataset.to(dev) under early stopping.
RunTorch ==
    /\ pc = "run_torch"
    /\ objs' = <<ver>>
    /\ ver' = ver + 1
    /\ net_net' = 1
    /\ opt' = 0
    /\ ldr_val' = "None"
    /\ pc' = IF args.early_stop THEN "error" ELSE "train"
    /\ UNCHANGED dataVars
    /\ UNCHANGED <<entry, args, out_flp, tested, num_bchs_trn>>
    /\ UNCHANGED trialVars
    /\ UNCHANGED trainVars

\* Lines 701-713: measure the duration, load the model file into net.net.
RunTorchLoad ==
    /\ pc = "rt_load"
    /\ \E t \in Durations : res' = [acc |-> <<0, 1>>, tim |-> t]
    /\ IF out_flp = NoFile
       THEN /\ pc' = "error"
            /\ UNCHANGED <<objs, net_net>>
       ELSE /\ objs' = Append(objs, out_flp)
            /\ net_net' = Len(objs) + 1
            /\ pc' = "test"
    /\ UNCHANGED dataVars
    /\ UNCHANGED <<entry, args, out_flp, trls, apts, ress, ret, all_degen,
                   runs_returned, tested, ldr_val, num_bchs_trn, opt, ver>>
    /\ UNCHANGED trainVars

\* ------------------------------------------------------------------ test
\* Lines 595-625 (and 718-722): accuracy = num_correct / total over the test set.
Test ==
    /\ pc = "test"
    /\ \E total \in 1..MaxTst : \E num_correct \in 0..total :
         /\ res' = [res EXCEPT !.acc = <<num_correct, total>>]
         /\ all_degen' = (all_degen /\ num_correct = 100 * total)
    /\ tested' = objs[net_net]
    /\ runs_returned' = runs_returned + 1
    /\ pc' = "rt_check"
    /\ UNCHANGED dataVars
    /\ UNCHANGED <<entry, args, out_flp, trls, apts, ress, ret, ldr_val,
                   num_bchs_trn>>
    /\ UNCHANGED modelVars
    /\ UNCHANGED trainVars

\* ----------------------------------------------------------------- train
\* Lines 488-514: the optimizer is built on the parameters of the current
\* net.net; best loss unset; patience at its maximum; the clock starts.
TrainInit ==
    /\ pc = "train"
    /\ opt' = net_net
    /\ los_val_min' = None
    /\ los_val' = None
    /\ val_pat' = args.val_patience
    /\ epoch_idx' = 0
    /\ bch_idx_trn' = 0
    /\ now' = 0
    /\ stop_reason' = "none"
    /\ num_vals' = 0
    /\ num_bchs_run' = 0
    /\ improved' = FALSE
    /\ ckpt_written' = FALSE
    /\ rolled_back' = FALSE
    /\ pc' = "epoch"
    /\ UNCHANGED dataVars
    /\ UNCHANGED <<entry, args, out_flp, tested, ldr_val, num_bchs_trn, objs,
                   net_net, ver>>
    /\ UNCHANGED trialVars

\* Lines 516-521: the head of the epoch loop with the timeout test.
EpochStart ==
    /\ pc = "epoch"
    /\ IF epoch_idx >= args.epochs
       THEN /\ stop_reason' = "epochs"
            /\ pc' = "train_end"
       ELSE IF TimedOut(args.timeout_s, now)
       THEN /\ stop_reason' = "timeout"
            /\ pc' = "train_end"
       ELSE /\ stop_reason' = stop_reason
            /\ pc' = "batch"
    /\ UNCHANGED dataVars
    /\ UNCHANGED <<entry, args, out_flp, tested, ldr_val, num_bchs_trn,
                   los_val_min, los_val, val_pat, epoch_idx, bch_idx_trn, now,
                   num_vals, num_bchs_run, improved, ckpt_written, rolled_back>>
    /\ UNCHANGED modelVars
    /\ UNCHANGED trialVars

\* Lines 524-543: one training batch; opt.step() writes the parameters the
\* optimizer was built on.  The batch takes some time.
TrainBatch ==
    /\ pc = "batch"
    /\ objs' = [objs EXCEPT ![opt] = ver]
    /\ ver' = ver + 1
    /\ num_bchs_run' = num_bchs_run + 1
    /\ \E d \in 0..1 : now' = Min(now + d, MaxTime)
    /\ IF args.early_stop /\ bch_idx_trn % BchsPerVal(num_bchs_trn) = 0
       THEN /\ pc' = "validate"
            /\ UNCHANGED <<epoch_idx, bch_idx_trn>>
       ELSE NextBatch
    /\ UNCHANGED dataVars
    /\ UNCHANGED <<entry, args, out_flp, tested, ldr_val, num_bchs_trn,
                   net_net, opt, los_val_min, los_val, val_pat, stop_reason,
                   num_vals, improved, ckpt_written, rolled_back>>
    /\ UNCHANGED trialVars

\* Lines 570-577: the new best loss, full patience, the live model saved.
NewBest(cur) ==
    /\ los_val_min' = cur
    /\ val_pat' = args.val_patience
    /\ out_flp' = objs[net_net]
    /\ ckpt_written' = TRUE
    /\ UNCHANGED <<objs, net_net, rolled_back>>

NoImprovementNoReload(best) ==
    /\ los_val_min' = best
    /\ val_pat' = val_pat - 1
    /\ UNCHANGED <<out_flp, ckpt_written, objs, net_net, rolled_back>>

\* Lines 578-583: one unit of patience is used up; net.net becomes a new object
\* loaded from the model file when that file exists.
NoImprovement(best) ==
    /\ los_val_min' = best
    /\ val_pat' = val_pat - 1
    /\ UNCHANGED <<out_flp, ckpt_written>>
    /\ IF out_flp # NoFile
       THEN /\ objs' = Append(objs, out_flp)
            /\ net_net' = Len(objs) + 1
            /\ rolled_back' = TRUE
       ELSE UNCHANGED <<objs, net_net, rolled_back>>

\* Lines 544-586: one validation pass with the early-stopping bookkeeping.
ValidationPass ==
    /\ pc = "validate"
    /\ IF ldr_val = "None"
       THEN \* enumerate(None) raises
            /\ pc' = "error"
            /\ UNCHANGED <<out_flp, objs, net_net, los_val_min, los_val,
                           val_pat, epoch_idx, bch_idx_trn, stop_reason,
                           num_vals, improved, ckpt_written, rolled_back>>
       ELSE \E cur \in Losses :
            LET best == IF los_val_min = None THEN cur ELSE los_val_min IN
            /\ los_val' = cur
            /\ IF best = 0
               THEN \* division by zero
                    /\ pc' = "error"
                    /\ los_val_min' = best
                    /\ UNCHANGED <<out_flp, objs, net_net, val_pat, epoch_idx,
                                   bch_idx_trn, stop_reason, num_vals,
                                   improved, ckpt_written, rolled_back>>
               ELSE /\ num_vals' = num_vals + 1
                    /\ improved' = (improved \/ (best - cur) * 100 >
                                        args.val_improvement_thresh * best)
                    /\ IF Improved(best, cur, args.val_improvement_thresh)
                       THEN NewBest(cur)
                       ELSE NoImprovement(best)
                    /\ IF PatienceExhausted(val_pat')
                       THEN /\ stop_reason' = "patience"
                            /\ pc' = TrainReturn
                            /\ UNCHANGED <<epoch_idx, bch_idx_trn>>
                       ELSE /\ stop_reason' = stop_reason
                            /\ NextBatch
    /\ UNCHANGED dataVars
    /\ UNCHANGED <<entry, args, tested, ldr_val, num_bchs_trn, opt, ver, now,
                   num_bchs_run>>
    /\ UNCHANGED trialVars

TrainEndNoSaveOnTimeout ==
    /\ pc = "train_end"
    /\ IF ~args.early_stop /\ stop_reason # "timeout"
       THEN /\ out_flp' = objs[net_net]
            /\ ckpt_written' = TRUE
       ELSE UNCHANGED <<out_flp, ckpt_written>>
    /\ pc' = TrainReturn
    /\ UNCHANGED dataVars
    /\ UNCHANGED <<entry, args, tested, ldr_val, num_bchs_trn, los_val_min,
                   los_val, val_pat, epoch_idx, bch_idx_trn, now, stop_reason,
                   num_vals, num_bchs_run, improved, rolled_back>>
    /\ UNCHANGED modelVars
    /\ UNCHANGED trialVars

\* Lines 587-592: without early stopping the final model is saved; return.
TrainEnd ==
    /\ pc = "train_end"
    /\ IF ~args.early_stop
       THEN /\ out_flp' = objs[net_net]
            /\ ckpt_written' = TRUE
       ELSE UNCHANGED <<out_flp, ckpt_written>>
    /\ pc' = TrainReturn
    /\ UNCHANGED dataVars
    /\ UNCHANGED <<entry, args, tested, ldr_val, num_bchs_trn, los_val_min,
                   los_val, val_pat, epoch_idx, bch_idx_trn, now, stop_reason,
                   num_vals, num_bchs_run, improved, rolled_back>>
    /\ UNCHANGED modelVars
    /\ UNCHANGED trialVars

\* ------------------------------------------------------------------ Spec
Next ==
    \/ RunTrialsStart
    \/ RunTrialsWhile
    \/ RunTrialsCheck
    \/ RunTrialsReport
    \/ RunSklearn
    \/ RunTorch
    \/ RunTorchLoad
    \/ Test
    \/ TrainInit
    \/ EpochStart
    \/ TrainBatch
    \/ ValidationPass
    \/ TrainEnd

Spec == Init /\ [][Next]_vars

\* The program is sequential and every step is taken once it is enabled.
FairSpec == Spec /\ WF_vars(Next)

\* -------------------------------- run_trials with the data to be built
\* run_trials (sklearn model) finds any simulations and any files in the
\* output directory.
RegenInit ==
    /\ entry = "run_trials"
    /\ \E ct \in 1..MaxTrials, ma \in 0..MaxAttempts, rg \in BOOLEAN :
         args = [TrainDefaults EXCEPT !.conf_trials = ct, !.max_attempts = ma,
                                      !.regen_data = rg]
    /\ ldr_val = "None"
    /\ num_bchs_trn = 1
    /\ sims \in {<<>>, <<GoodSim(1)>>, <<BadSim(1)>>, <<BadSim(1), GoodSim(2)>>}
    /\ dat_flp \in {"absent", "old"}
    /\ scl_prms_flp \in {"absent", "old"}
    /\ out_flp \in {NoFile, 0}
    /\ DataIdle
    /\ InitRest

RegenNext ==
    \/ RunTrialsStart
    \/ ProcessSim
    \/ GenData
    \/ RunTrialsWhile
    \/ RunTrialsCheck
    \/ RunTrialsReport
    \/ RunSklearn

RegenSpec == RegenInit /\ [][RegenNext]_vars

\* ------------------------------------------------- gen_data on its own
\* The <<warmup_percent, keep_percent>> pairs: the defaults, and a longer
\* warmup with every remaining row kept.
WarmKeep == {<<10, 50>>, <<50, 100>>}

\* gen_data called on any simulations, with nothing in the output directory.
DataInit ==
    /\ entry = "gen_data"
    /\ \E wk \in WarmKeep, st \in BOOLEAN, sy \in BOOLEAN :
         args = [TrainDefaults EXCEPT !.warmup_percent = wk[1],
                                      !.keep_percent = wk[2],
                                      !.standardize = st, !.sync = sy]
    /\ ldr_val = "None"
    /\ num_bchs_trn = 1
    /\ sims \in SimSeqs(MaxSims)
    /\ dat_flp = "absent"
    /\ scl_prms_flp = "absent"
    /\ out_flp = NoFile
    /\ DataIdle
    /\ InitRest

\* Lines 201-247: gen_data calls make_datasets, which lists the simulations.
GenDataStart ==
    /\ pc \in {"gen_data", "gen_split"}
    /\ pc' = DataStart
    /\ UNCHANGED dataVars
    /\ UNCHANGED <<entry, args, out_flp, ldr_val, num_bchs_trn, tested, tst>>
    /\ UNCHANGED trialVars
    /\ UNCHANGED modelVars
    /\ UNCHANGED trainVars

\* Lines 366-438: split_data on the dataset, with or without a validation set.
SplitData ==
    /\ pc = "split_data"
    /\ \E use_val \in BOOLEAN, perm \in Perms(Len(ds.in)) :
         /\ parts' = Partition(Merge(ds, perm), use_val)
         /\ ldr_val' = IF use_val THEN "loader" ELSE "None"
    /\ pc' = "done"
    /\ UNCHANGED <<sims, dat_all, discards, ds, dat_flp, scl_prms_flp, err>>
    /\ UNCHANGED <<scl_in, scl_out, files, cnfs, rng>>
    /\ UNCHANGED <<entry, args, out_flp, num_bchs_trn, tested, tst>>
    /\ UNCHANGED trialVars
    /\ UNCHANGED modelVars
    /\ UNCHANGED trainVars

DataNext ==
    \/ GenDataStart
    \/ ProcessSim
    \/ GenData

DataSpec == DataInit /\ [][DataNext]_vars

\* ------------------------------------------- gen_data, then split_data
\* Row alignment does not depend on the feature values: every row holds 1.
PipeShapes == {<<"load_fail", <<1>>>>} \cup {<<"ok", [k \in 1..n |-> 1]>> : n \in 1..MaxRows}

PipeSims ==
    UNION {{[s \in 1..n |-> [kind |-> c[s][1], rows |-> c[s][2], flws |-> s + 1]] :
              c \in [1..n -> PipeShapes]} : n \in 1..MaxSims}

PipeInit ==
    /\ entry = "gen_split"
    /\ \E wk \in WarmKeep, sy \in BOOLEAN :
         args = [TrainDefaults EXCEPT !.warmup_percent = wk[1],
                                      !.keep_percent = wk[2], !.sync = sy]
    /\ ldr_val = "None"
    /\ num_bchs_trn = 1
    /\ sims \in PipeSims
    /\ dat_flp = "absent"
    /\ scl_prms_flp = "absent"
    /\ out_flp = NoFile
    /\ DataIdle
    /\ InitRest

PipeNext ==
    \/ GenDataStart
    \/ ProcessSim
    \/ GenData
    \/ SplitData

PipeSpec == PipeInit /\ [][PipeNext]_vars

\* ---------------------------------------------------- split_data alone
\* A dataset of n aligned rows, taken from two simulations in turn.
SplitDs(n) ==
    LET id(i) == <<(i % 2) + 1, i>>
    IN [in |-> [i \in 1..n |-> [id |-> id(i), fets |-> <<Zero>>]],
        out |-> [i \in 1..n |-> id(i)],
        raw |-> [i \in 1..n |-> id(i)],
        oracle |-> [i \in 1..n |-> id(i)],
        flws |-> [i \in 1..n |-> (i % 2) + 2],
        orig |-> [i \in 1..n |-> <<FInt(1)>>],
        rep |-> [i \in 1..n |-> <<FInt(1)>>],
        scl_prms |-> <<<<FInt(1), FInt(1)>>>>]

SplitInit ==
    /\ entry = "split_data"
    /\ args = TrainDefaults
    /\ ldr_val = "None"
    /\ num_bchs_trn = 1
    /\ sims = <<>>
    /\ dat_all = <<>>
    /\ discards = -1
    /\ \E n \in 1..MaxExps : ds = SplitDs(n)
    /\ parts = NoParts
    /\ scl_in = NoScaleIn
    /\ scl_out = NoScaleOut
    /\ files = NoFiles
    /\ cnfs = <<>>
    /\ rng = NoRng
    /\ tst = NoTest
    /\ err = ""
    /\ dat_flp = "old"
    /\ scl_prms_flp = "old"
    /\ out_flp = NoFile
    /\ InitRest

SplitNext == SplitData

SplitSpec == SplitInit /\ [][SplitNext]_vars

\* ------------------------------------- process_sim over the worker pool
\* A simulation file: its directory and its basename, the basename split
\* into its last four characters and what is before them.
SimPaths ==
    {[dir |-> "d1", stem |-> "a", ext |-> ".sim"],
     [dir |-> "d1", stem |-> "b", ext |-> ".sim"],
     [dir |-> "d2", stem |-> "a", ext |-> ".sim"],
     [dir |-> "d1", stem |-> "a", ext |-> ".bak"]}

\* path.join(tmp_dir, f"{path.basename(sim_flp)[:-4]}_tmp.npz")
ScratchPath(tmp_dir, sim_flp) == [dir |-> tmp_dir, name |-> <<sim_flp.stem, "_tmp.npz">>]

\* A file written by who with content, on top of the files fs.
WriteFile(fs, flp, who, content) ==
    [p \in DOMAIN fs \cup {flp} |->
        IF p = flp
        THEN [writers |-> (IF flp \in DOMAIN fs THEN fs[flp].writers ELSE {}) \cup {who},
              content |-> content]
        ELSE fs[p]]

\* multiprocessing.Pool() has one worker per core; two of them are modelled.
PoolWorkers == 2

\* The process that runs process_sim: 1 is the parent (synchronous mode),
\* 2.. are the pool workers, forked with the parent's generator state.
Procs == 1..(PoolWorkers + 1)

\* Simulations of MaxRows rows each, all kept (warmup below one row, keep 100).
PoolSims ==
    UNION {{[s \in 1..n |-> [kind |-> "ok", rows |-> [k \in 1..MaxRows |-> 1],
                             flws |-> s + 1, flp |-> c[s]]] :
              c \in {d \in [1..n -> SimPaths] :
                       \A i, j \in 1..n : d[i] = d[j] => i = j}} : n \in 1..MaxSims}

PoolInit ==
    /\ entry = "process_sim"
    /\ \E sy \in BOOLEAN :
         args = [TrainDefaults EXCEPT !.warmup_percent = 10, !.keep_percent = 100,
                                      !.sync = sy]
    /\ ldr_val = "None"
    /\ num_bchs_trn = 1
    /\ sims \in PoolSims
    /\ dat_all = [s \in 1..Len(sims) |-> Pending]
    /\ discards = -1
    /\ ds = EmptyDs
    /\ parts = NoParts
    /\ scl_in = NoScaleIn
    /\ scl_out = NoScaleOut
    /\ files = NoFiles
    /\ cnfs = <<>>
    \* utils.set_rand_seed() fixes the stream; every process starts at its head
    /\ \E st \in [1..(MaxSims * MaxRows) -> 1..MaxRows] :
         rng = [stream |-> st, pos |-> [w \in Procs |-> 0]]
    /\ tst = NoTest
    /\ err = ""
    /\ dat_flp = "absent"
    /\ scl_prms_flp = "absent"
    /\ out_flp = NoFile
    /\ InitRest

\* Lines 122-198, 248-253: process_sim on one simulation, in the parent when
\* the calls are made in sequence, in any pool worker otherwise.  The rows
\* are drawn from the generator of the process that runs the call, the
\* result goes to the scratch file and the path is returned.
ProcessSimSave ==
    /\ pc = "process_sim"
    /\ \E s \in 1..Len(sims), w \in Procs :
         /\ dat_all[s].st = "pending"
         /\ IF args.sync
            THEN w = 1 /\ \A j \in 1..(s - 1) : dat_all[j].st # "pending"
            ELSE w # 1
         /\ LET sim == sims[s]
                num_rows == NumAfterWarmup(Len(sim.rows), args.warmup_percent)
                num_to_pick == NumToPick(num_rows, args.keep_percent)
                idxs == [k \in 1..num_to_pick |-> rng.stream[rng.pos[w] + k]]
                flp == ScratchPath("tmp", sim.flp)
                last == \A j \in 1..Len(sims) : j # s => dat_all[j].st # "pending"
            IN /\ files' = WriteFile(files, flp, s,
                                     Processed(s, sim, args.warmup_percent, idxs))
               /\ rng' = [rng EXCEPT !.pos[w] = @ + num_to_pick]
               /\ dat_all' = [dat_all EXCEPT ![s] = [st |-> "saved", flp |-> flp]]
               /\ pc' = IF last THEN "make_datasets" ELSE "process_sim"
    /\ UNCHANGED <<sims, discards, ds, dat_flp, scl_prms_flp, parts, err>>
    /\ UNCHANGED <<scl_in, scl_out, cnfs>>
    /\ UNCHANGED <<entry, args, out_flp, ldr_val, num_bchs_trn, tested, tst>>
    /\ UNCHANGED trialVars
    /\ UNCHANGED modelVars
    /\ UNCHANGED trainVars

\* utils.load_tmp_file: the scratch file is loaded once and then discarded.
LoadTmpFile(fs, flp) ==
    [found |-> flp \in DOMAIN fs,
     dat |-> IF flp \in DOMAIN fs THEN fs[flp].content ELSE Discarded,
     fs |-> [p \in DOMAIN fs \ {flp} |-> fs[p]]]

\* The files after the first k scratch paths of flps have been loaded.
RECURSIVE AfterLoads(_, _, _)
AfterLoads(fs, flps, k) ==
    IF k = 0 THEN fs ELSE LoadTmpFile(AfterLoads(fs, flps, k - 1), flps[k]).fs

ErrNoTmpFile == "FileNotFoundError"

\* Line 260: dat_all = [utils.load_tmp_file(flp) for flp in dat_all]
LoadTmpFiles ==
    /\ pc = "make_datasets"
    /\ LET flps == [s \in 1..Len(dat_all) |-> dat_all[s].flp]
           load(s) == LoadTmpFile(AfterLoads(files, flps, s - 1), flps[s])
           missing == {s \in 1..Len(flps) : ~load(s).found}
       IN IF missing = {}
          THEN /\ dat_all' = [s \in 1..Len(flps) |-> load(s).dat]
               /\ files' = AfterLoads(files, flps, Len(flps))
               /\ pc' = "done"
               /\ err' = err
          ELSE /\ dat_all' = dat_all
               /\ files' = AfterLoads(files, flps,
                                      (CHOOSE s \in missing : \A t \in missing : s <= t) - 1)
               /\ pc' = "error"
               /\ err' = ErrNoTmpFile
    /\ UNCHANGED <<sims, discards, ds, dat_flp, scl_prms_flp, parts>>
    /\ UNCHANGED <<scl_in, scl_out, cnfs, rng>>
    /\ UNCHANGED <<entry, args, out_flp, ldr_val, num_bchs_trn, tested, tst>>
    /\ UNCHANGED trialVars
    /\ UNCHANGED modelVars
    /\ UNCHANGED trainVars

PoolNext ==
    \/ ProcessSimSave
    \/ LoadTmpFiles

PoolSpec == PoolInit /\ [][PoolNext]_vars

\* ------------------------------------------------------------- run_cnfs
OutDirs == {"o1", "o2"}

\* The configurations run_cnfs is given: they differ in the output
\* directory, in the number of epochs or in regen_data.
Cnfs == [out_dir : OutDirs, epochs : 1..2, regen_data : BOOLEAN]

\* utils.args_to_str(args, order=sorted(defaults.DEFAULTS.keys())): a name
\* that spells out the value of every option.
ArgsToStr(cnf) == <<cnf.out_dir, cnf.epochs, cnf.regen_data>>

\* out_flp = path.join(args["out_dir"], args_to_str(...) + ".pickle")
ModelFlp(cnf) == [dir |-> cnf.out_dir, name |-> <<"model", ArgsToStr(cnf)>>]

\* dat_flp = path.join(out_dir, "data.npz")
DatFlp(cnf) == [dir |-> cnf.out_dir, name |-> <<"data.npz", <<>>>>]

\* scl_prms_flp = path.join(out_dir, "scale_params.json")
SclPrmsFlp(cnf) == [dir |-> cnf.out_dir, name |-> <<"scale_params.json", <<>>>>]

\* The data files earlier runs left in the directories of dirs.
OldData(dirs) ==
    [p \in UNION {{DatFlp([out_dir |-> d]), SclPrmsFlp([out_dir |-> d])} : d \in dirs} |->
        [writers |-> {}, content |-> "old"]]

CnfInit ==
    /\ entry = "run_cnfs"
    /\ args = [TrainDefaults EXCEPT !.model = "sklearn"]
    /\ ldr_val = "None"
    /\ num_bchs_trn = 1
    /\ sims = <<>>
    /\ dat_all = <<>>
    /\ discards = -1
    /\ ds = EmptyDs
    /\ parts = NoParts
    /\ scl_in = NoScaleIn
    /\ scl_out = NoScaleOut
    /\ \E dirs \in SUBSET OutDirs : files = OldData(dirs)
    /\ \E n \in 2..MaxCnfs :
         \E c \in {d \in [1..n -> Cnfs] : \A i, j \in 1..n : d[i] = d[j] => i = j} :
             cnfs = [i \in 1..n |-> [args |-> c[i], pc |-> "run_trials"]]
    /\ rng = NoRng
    /\ tst = NoTest
    /\ err = ""
    /\ dat_flp = "absent"
    /\ scl_prms_flp = "absent"
    /\ out_flp = NoFile
    /\ InitRest

CnfFrame ==
    /\ UNCHANGED <<sims, dat_all, discards, ds, dat_flp, scl_prms_flp, parts, err>>
    /\ UNCHANGED <<scl_in, scl_out, rng, tst>>
    /\ UNCHANGED <<entry, args, out_flp, ldr_val, num_bchs_trn, tested, tst>>
    /\ UNCHANGED trialVars
    /\ UNCHANGED modelVars
    /\ UNCHANGED trainVars

\* Lines 745-782 in the worker of configuration c: the model file of an
\* earlier run is deleted, then the data is looked for.
CnfRunTrials(c) ==
    /\ cnfs[c].pc = "run_trials"
    /\ LET cnf == cnfs[c].args
           found == /\ ~cnf.regen_data
                    /\ DatFlp(cnf) \in DOMAIN files
                    /\ SclPrmsFlp(cnf) \in DOMAIN files
       IN /\ files' = [p \in DOMAIN files \ {ModelFlp(cnf)} |-> files[p]]
          /\ cnfs' = [cnfs EXCEPT ![c].pc = IF found THEN "trials" ELSE "gen_data"]
    /\ pc' = pc
    /\ CnfFrame

\* Lines 790-793, 351-363: gen_data saves the dataset and the scaling
\* parameters in the output directory.
CnfGenData(c) ==
    /\ cnfs[c].pc = "gen_data"
    /\ LET cnf == cnfs[c].args
       IN files' = WriteFile(WriteFile(files, DatFlp(cnf), c, "data"),
                            SclPrmsFlp(cnf), c, "scl_prms")
    /\ cnfs' = [cnfs EXCEPT ![c].pc = "trials"]
    /\ pc' = pc
    /\ CnfFrame

\* Lines 804-826, 650-652: the trials save the model at out_flp.
CnfTrials(c) ==
    /\ cnfs[c].pc = "trials"
    /\ files' = WriteFile(files, ModelFlp(cnfs[c].args), c, "model")
    /\ cnfs' = [cnfs EXCEPT ![c].pc = "done"]
    /\ pc' = pc
    /\ CnfFrame

\* Line 863: starmap returns when every configuration has been evaluated.
CnfReturn ==
    /\ pc = "run_cnfs"
    /\ \A c \in 1..Len(cnfs) : cnfs[c].pc = "done"
    /\ pc' = "done"
    /\ UNCHANGED <<files, cnfs>>
    /\ CnfFrame

\* Lines 858-862: the configurations run in a pool, in any interleaving.
CnfNext ==
    \/ \E c \in 1..Len(cnfs) : CnfRunTrials(c)
    \/ \E c \in 1..Len(cnfs) : CnfGenData(c)
    \/ \E c \in 1..Len(cnfs) : CnfTrials(c)
    \/ CnfReturn

CnfSpec == CnfInit /\ [][CnfNext]_vars

\* ----------------------------------------------------------- test alone
\* A test batch: for each of its examples whether net.check_output counts
\* the prediction as correct.
TstBchs == UNION {[1..n -> BOOLEAN] : n \in 1..MaxTst}

\* The test loaders, the empty one included.
TstLdrs == UNION {[1..n -> TstBchs] : n \in 0..MaxTst}

\* inference(...)[0] with los_fnc=net.check_output: the number of correct
\* predictions of the batch.
NumCorrect(bch) == Cardinality({k \in 1..Len(bch) : bch[k]})

ErrZeroDivision == "ZeroDivisionError"

\* Lines 604, 599-602: net.net.eval(), the counters at zero.
TestEval(t) == [t EXCEPT !.mode = "eval", !.num_correct = 0, !.total = 0, !.bch_idx = 0]

\* Lines 606-620: one batch is inferred in the model's current mode.
TestBch(t) ==
    LET bch == t.ldr[t.bch_idx + 1]
    IN [t EXCEPT !.bch_idx = @ + 1,
                 !.modes = Append(@, t.mode),
                 !.num_correct = @ + NumCorrect(bch),
                 !.total = @ + Len(bch)]

TestReturnInEvalMode(t) == [t EXCEPT !.acc = <<t.num_correct, t.total>>]

\* Lines 621-625: net.net.train(); acc_tst = num_correct / total
TestReturn(t) == [t EXCEPT !.mode = "train", !.acc = <<t.num_correct, t.total>>]

TestInit ==
    /\ entry = "test"
    /\ args = [TrainDefaults EXCEPT !.model = "torch"]
    /\ ldr_val = "None"
    /\ num_bchs_trn = 1
    /\ sims = <<>>
    /\ dat_all = <<>>
    /\ discards = -1
    /\ ds = EmptyDs
    /\ parts = NoParts
    /\ scl_in = NoScaleIn
    /\ scl_out = NoScaleOut
    /\ files = NoFiles
    /\ cnfs = <<>>
    /\ rng = NoRng
    /\ \E l \in TstLdrs, m \in {"train", "eval"} :
         tst = [NoTest EXCEPT !.ldr = l, !.mode = m]
    /\ err = ""
    /\ dat_flp = "absent"
    /\ scl_prms_flp = "absent"
    /\ out_flp = NoFile
    /\ InitRest

TestFrame ==
    /\ UNCHANGED <<sims, dat_all, discards, ds, dat_flp, scl_prms_flp, parts>>
    /\ UNCHANGED <<scl_in, scl_out, files, cnfs, rng>>
    /\ UNCHANGED <<entry, args, out_flp, ldr_val, num_bchs_trn, tested>>
    /\ UNCHANGED trialVars
    /\ UNCHANGED modelVars
    /\ UNCHANGED trainVars

\* Lines 597-604: the model is put in evaluation mode.
TestStart ==
    /\ pc = "test"
    /\ tst' = TestEval(tst)
    /\ pc' = "test_bch"
    /\ err' = err
    /\ TestFrame

\* Lines 605-620: the loop over the test batches, under torch.no_grad().
TestBatch ==
    /\ pc = "test_bch"
    /\ tst.bch_idx < Len(tst.ldr)
    /\ tst' = TestBch(tst)
    /\ pc' = "test_bch"
    /\ err' = err
    /\ TestFrame

\* Lines 621-625: back to training mode, then the division, which raises
\* when the loader had no example.
TestEnd ==
    /\ pc = "test_bch"
    /\ tst.bch_idx = Len(tst.ldr)
    /\ IF tst.total = 0
       THEN /\ tst' = [tst EXCEPT !.mode = "train"]
            /\ pc' = "error"
            /\ err' = ErrZeroDivision
       ELSE /\ tst' = TestReturn(tst)
            /\ pc' = "done"
            /\ err' = err
    /\ TestFrame

TestNext ==
    \/ TestStart
    \/ TestBatch
    \/ TestEnd

TestSpec == TestInit /\ [][TestNext]_vars

\* ------------------------------------- train with long training loaders
\* Early-stopped training on loaders of up to MaxBchsEpc batches, without a
\* timeout; under the negative threshold an unchanged loss is an improvement.
CadenceInit ==
    /\ entry = "train"
    /\ \E th \in {-60, 0}, ep \in 1..MaxEpochs :
         args = [TrainDefaults EXCEPT !.model = "torch", !.early_stop = TRUE,
                                      !.val_patience = 1,
                                      !.val_improvement_thresh = th,
                                      !.timeout_s = 0, !.epochs = ep]
    /\ ldr_val = "loader"
    /\ num_bchs_trn \in 1..MaxBchsEpc
    /\ InitData
    /\ out_flp = NoFile
    /\ InitRest

CadenceNext ==
    \/ TrainInit
    \/ EpochStart
    \/ TrainBatch
    \/ ValidationPass
    \/ TrainEnd

CadenceSpec == CadenceInit /\ [][CadenceNext]_vars

\* ---------------------------------------------------- scale_fets alone
ScaleVals == {0, 1, 2}
GrpKeys == {0, 1, 2}

\* Matrices of 1..MaxRows rows and 1..MaxFets columns, a scaling-group key
\* for each of 1..MaxFets columns, either mode.
ScaleInputs ==
    UNION {{[dat |-> [r \in 1..nr |-> [f \in 1..nf |-> FInt(m[r][f])]],
             num_fets |-> nf, scl_grps |-> g, standardize |-> st] :
               m \in [1..nr -> [1..nf -> ScaleVals]],
               g \in UNION {[1..ng -> GrpKeys] : ng \in 1..MaxFets},
               st \in BOOLEAN} :
           nr \in 1..MaxRows, nf \in 1..MaxFets}

ScaleInit ==
    /\ entry = "scale_fets"
    /\ args = TrainDefaults
    /\ ldr_val = "None"
    /\ num_bchs_trn = 1
    /\ sims = <<>>
    /\ dat_all = <<>>
    /\ discards = -1
    /\ ds = EmptyDs
    /\ parts = NoParts
    /\ scl_in \in ScaleInputs
    /\ scl_out = NoScaleOut
    /\ files = NoFiles
    /\ cnfs = <<>>
    /\ rng = NoRng
    /\ tst = NoTest
    /\ err = ""
    /\ dat_flp = "absent"
    /\ scl_prms_flp = "absent"
    /\ out_flp = NoFile
    /\ InitRest

\* Lines 44-119: one call of scale_fets.
ScaleFetsCall ==
    /\ pc = "scale_fets"
    /\ scl_out' = ScaleFets(scl_in.dat, scl_in.num_fets, scl_in.scl_grps,
                            scl_in.standardize)
    /\ err' = scl_out'.err
    /\ pc' = IF scl_out'.err = "" THEN "done" ELSE "error"
    /\ UNCHANGED <<sims, dat_all, discards, ds, dat_flp, scl_prms_flp, parts, scl_in>>
    /\ UNCHANGED <<files, cnfs, rng>>
    /\ UNCHANGED <<entry, args, out_flp, ldr_val, num_bchs_trn, tested, tst>>
    /\ UNCHANGED trialVars
    /\ UNCHANGED modelVars
    /\ UNCHANGED trainVars

ScaleNext == ScaleFetsCall

ScaleSpec == ScaleInit /\ [][ScaleNext]_vars

TypeOK ==
    /\ pc \in {"run_trials", "rt_while", "rt_check", "rt_report", "run_sklearn",
               "run_torch", "rt_load", "test", "train", "epoch", "batch",
               "validate", "train_end", "done", "error", "process_sim",
               "make_datasets", "gen_data", "gen_split", "split_data", "scale_fets",
               "run_cnfs", "test_bch"}
    /\ dat_flp \in {"absent", "old", "new"}
    /\ scl_prms_flp \in {"absent", "old", "new"}
    /\ discards \in -1..Len(sims)
    /\ Len(dat_all) = Len(sims)
    /\ out_flp \in Int
    /\ apts \in Nat
    /\ val_pat \in Int

\* ---------------------------------------------------------------- claims
TrainStarted == opt # 0
PctImproved(best, cur) == (best - cur) * 100 > args.val_improvement_thresh * best
BestAtTest == IF los_val_min = None THEN los_val' ELSE los_val_min
PassCompletes == pc = "validate" /\ pc' # "error" /\ pc' # "validate"

\* C1: if every train+test run returns accuracy 100 (the degenerate-failure
\* sentinel) and conf_trials >= 1, run_trials leaves its loop only after
\* exactly max_attempts runs, returns (NaN, NaN) and raises no error.
C1_AllDegenerateExhaustsAttempts ==
    (entry = "run_trials" /\ all_degen /\ runs_returned = apts) =>
        /\ pc # "error"
        /\ pc = "rt_report" => apts = args.max_attempts
        /\ pc = "done" => (apts = args.max_attempts /\ ret.set /\ ret.nan)

C1_Witness ==
    /\ entry = "run_trials" /\ pc = "done" /\ all_degen
    /\ runs_returned = apts /\ apts >= 2 /\ apts = args.max_attempts
    /\ ret.nan

C2_Counts ==
    (entry = "run_trials" /\ pc # "run_trials") =>
        /\ apts <= args.max_attempts
        /\ Len(ress) <= args.conf_trials
        /\ trls = args.conf_trials - Len(ress)

C2_Step ==
    /\ pc = "rt_check" =>
          /\ apts' = apts
          /\ Len(ress') = Len(ress) +
                (IF res.acc[1] = 100 * res.acc[2] THEN 0 ELSE 1)
    /\ (pc = "rt_while" /\ pc' # "rt_report") => apts' = apts + 1
    /\ pc = "rt_while" =>
          ((pc' = "rt_report") <=>
              (Len(ress) = args.conf_trials \/ apts = args.max_attempts))

\* C2: a degenerate run raises the attempt count but not the success count,
\* any other run raises both; the loop is left exactly when the successes
\* reach conf_trials or the attempts reach max_attempts; attempts never exceed
\* max_attempts, successes never exceed conf_trials, and the program ends.
C2_RetryPolicy ==
    /\ []C2_Counts
    /\ [][C2_Step]_vars
    /\ <>(pc \in {"done", "error"})

C2_Witness ==
    /\ entry = "run_trials" /\ pc = "done"
    /\ Len(ress) = args.conf_trials
    /\ apts > Len(ress) /\ apts < args.max_attempts

\* C3: when at least one run succeeded, run_trials returns (1 - a, d) where a
\* is the largest accuracy among the successful runs and d is the duration of
\* a run with that accuracy.
C3_BestOfSuccesses ==
    (entry = "run_trials" /\ pc = "done" /\ ress # <<>>) =>
        /\ ~ret.nan
        /\ \E i \in 1..Len(ress) :
             /\ \A j \in 1..Len(ress) : ~FracLess(ress[i].acc, ress[j].acc)
             /\ FracEq(ret.err, <<ress[i].acc[2] - ress[i].acc[1], ress[i].acc[2]>>)
             /\ ret.tim = ress[i].tim

C3_Witness ==
    /\ entry = "run_trials" /\ pc = "done" /\ Len(ress) = 2
    /\ FracLess(ress[2].acc, ress[1].acc)
    /\ ress[1].tim # ress[2].tim
    /\ ret.tim = ress[1].tim

\* C4: a run whose test accuracy is the worst possible (no test prediction is
\* correct) is retried and not counted as a successful trial.
C4_WorstAccuracyIsRetried ==
    [][(pc = "rt_check" /\ res.acc[1] = 0) => (ress' = ress /\ trls' = trls)]_vars

\* C5 as stated: with early stopping, when no validation pass passed the
\* improvement test, train has run exactly val_patience validation passes
\* when it leaves its loop.
C5_StopsAfterExactlyPatiencePasses ==
    (TrainStarted /\ args.early_stop /\ ~improved /\ stop_reason # "none") =>
        num_vals = args.val_patience

\* C5 (amended): with early stopping, while no validation pass has passed the
\* improvement test, every completed pass costs one unit of patience, train
\* never runs more than val_patience passes and stops for lack of patience
\* exactly at pass number val_patience; it leaves its loop after fewer passes
\* only because the epochs ran out or the timeout fired.
C5_PatienceStopAtPatiencePasses ==
    (TrainStarted /\ args.early_stop /\ ~improved) =>
        /\ num_vals + val_pat = args.val_patience
        /\ num_vals <= args.val_patience
        /\ (stop_reason = "patience") <=> (num_vals = args.val_patience)
        /\ (stop_reason # "none" /\ num_vals < args.val_patience) =>
              stop_reason \in {"epochs", "timeout"}

C5_Witness ==
    /\ entry = "train" /\ args.early_stop /\ ~improved
    /\ stop_reason = "patience" /\ pc = "done"
    /\ args.val_patience = 2 /\ num_vals = 2

\* C6: a validation pass whose loss passes the test
\* (best - current) / best * 100 > val_improvement_thresh makes the current
\* loss the best loss, resets the patience to val_patience and writes the live
\* model to the model file; a pass that fails the test leaves the file alone.
C6_ImprovementCheckpoints ==
    [][PassCompletes =>
        IF PctImproved(BestAtTest, los_val')
        THEN /\ los_val_min' = los_val'
             /\ val_pat' = args.val_patience
             /\ out_flp' = objs[net_net]
        ELSE out_flp' = out_flp]_vars

C6_Witness ==
    /\ args.early_stop /\ improved /\ ckpt_written /\ num_vals >= 2
    /\ args.val_improvement_thresh >= 0
    /\ los_val_min = los_val /\ val_pat = args.val_patience
    /\ out_flp = objs[net_net] /\ pc \in {"batch", "epoch"}

\* C7: a validation pass that fails the improvement test lowers the patience
\* by exactly one, keeps the best loss used in the test and the model file,
\* and, if the model file exists, leaves a live model holding the file's
\* parameters at the point where the next training batch starts.
C7_NoImprovementRollsBack ==
    [][(PassCompletes /\ ~PctImproved(BestAtTest, los_val')) =>
        /\ val_pat' = val_pat - 1
        /\ los_val_min' = BestAtTest
        /\ out_flp' = out_flp
        /\ out_flp # NoFile =>
              /\ objs'[net_net'] = out_flp
              /\ pc' \in {"batch", "epoch", "done", "rt_load"}]_vars

C7_Witness ==
    /\ args.early_stop /\ rolled_back /\ ckpt_written /\ ~(los_val_min = los_val)
    /\ pc = "batch" /\ objs[net_net] = out_flp
    /\ val_pat = args.val_patience - 1

\* C8: after a rollback every training batch updates the parameters of the
\* live model: the step of the optimizer gives net.net new parameters.
C8_BatchUpdatesLiveModel ==
    [][pc = "batch" => objs'[net_net'] # objs[net_net]]_vars

\* C9: when the patience reaches zero no further batch runs and a checkpoint
\* written during this training exists for run_torch to load and test.
C9_PatienceStopHasCheckpoint ==
    stop_reason = "patience" => (ckpt_written /\ out_flp # NoFile)

C10_Step ==
    /\ (stop_reason' = "timeout" /\ stop_reason # "timeout") =>
          (pc = "epoch" /\ args.timeout_s # 0 /\ now > args.timeout_s)
    /\ (pc = "epoch" /\ epoch_idx < args.epochs /\ args.timeout_s # 0
           /\ now > args.timeout_s) => stop_reason' = "timeout"
    /\ pc \in {"batch", "validate"} => pc' # "train_end"
    /\ (stop_reason = "timeout" /\ stop_reason' = "timeout") =>
          num_bchs_run' = num_bchs_run
    /\ (stop_reason' = "timeout" /\ args.early_stop) => out_flp' = out_flp

\* C10: the elapsed time is compared with timeout_s at the head of an epoch
\* and nowhere else; timeout_s = 0 never stops training; once the elapsed
\* time exceeds a non-zero timeout_s at the head of an epoch, no further batch
\* runs and, under early stopping, the model file stays as it is.
C10_TimeoutAtEpochBoundary == [][C10_Step]_vars

C10_Witness ==
    /\ args.early_stop /\ stop_reason = "timeout" /\ pc = "done"
    /\ num_bchs_run >= 2 /\ ckpt_written /\ out_flp # NoFile
TrainReturned ==
    \/ pc = "rt_load"
    \/ (entry = "train" /\ pc = "done" /\ stop_reason # "none")

\* C11: with early stopping disabled train runs no validation pass, leaves its
\* loop only because the epochs ran out or the timeout fired, has then run
\* every batch of every epoch it started (all of them when the epochs ran
\* out), and whenever it has returned the model file holds the live model.
C11_NoEarlyStopRunsAllEpochsAndSaves ==
    (TrainStarted /\ ~args.early_stop) =>
        /\ num_vals = 0
        /\ stop_reason \in {"none", "epochs", "timeout"}
        /\ stop_reason = "epochs" => num_bchs_run = args.epochs * num_bchs_trn
        /\ stop_reason = "timeout" =>
              /\ num_bchs_run = epoch_idx * num_bchs_trn
              /\ epoch_idx < args.epochs
        /\ TrainReturned => (out_flp # NoFile /\ out_flp = objs[net_net])

C11_Witness ==
    /\ ~args.early_stop /\ TrainReturned /\ stop_reason = "timeout"
    /\ num_bchs_run >= 2 /\ out_flp = objs[net_net]

\* C12: at the start of every trial of run_trials no model file written by an
\* earlier trial exists at the output path.
C12_TrialStartsWithoutCheckpoint ==
    (pc \in {"run_torch", "run_sklearn"}) => out_flp = NoFile

\* C13: split_data on N examples gives len(train) + len(val) + len(test) = N,
\* a test set of the integer nearest to 0.3 N, a validation set of the
\* integer nearest to 0.2 N when validation is on and of 0 rows when it is
\* off; no partition has a negative size.
C13_PartitionSizes ==
    parts.done =>
        LET n == Len(ds.in)
            num_trn == Len(parts.trn)
            num_val == Len(parts.val)
            num_tst == Len(parts.tst)
        IN /\ num_trn + num_val + num_tst = n
           /\ num_trn >= 0 /\ num_val >= 0 /\ num_tst >= 0
           /\ Abs(10 * num_tst - 3 * n) <= 5
           /\ IF parts.use_val THEN Abs(10 * num_val - 2 * n) <= 5
              ELSE num_val = 0

C13_Witness ==
    /\ parts.done /\ parts.use_val /\ Len(ds.in) = 5
    /\ Len(parts.val) = 1 /\ Len(parts.tst) = 2 /\ Len(parts.trn) = 2

\* The example a row of the five arrays claims to come from, and the number
\* of times a row occurs in a sequence.
SameExample(row) ==
    /\ row.out = row.in.id
    /\ row.raw = row.in.id
    /\ row.oracle = row.in.id
    /\ row.flws = sims[row.in.id[1]].flws
DsRows ==
    [i \in 1..Len(ds.in) |->
        [in |-> ds.in[i], out |-> ds.out[i], raw |-> ds.raw[i],
         oracle |-> ds.oracle[i], flws |-> ds.flws[i]]]
Count(rows, x) == Cardinality({i \in 1..Len(rows) : rows[i] = x})

MeanOfKnown(col) == Mean(SelectSeq(col, LAMBDA v : v # Unknown))

\* C15: in the dataset make_datasets returns, every value that was the
\* sentinel -1 before the repair holds the mean of the known (non-sentinel)
\* values of its feature after the repair.
C15_SentinelReplacedByMeanOfKnown ==
    (pc = "done" /\ err = "") =>
        \A i \in 1..Len(ds.orig), f \in 1..Len(ds.orig[1]) :
            ds.orig[i][f] = Unknown =>
                FracEq(ds.rep[i][f],
                       MeanOfKnown([k \in 1..Len(ds.orig) |-> ds.orig[k][f]]))

\* The number of rows stored for the first n simulations.
RECURSIVE StoredRows(_)
StoredRows(n) ==
    IF n = 0 THEN 0
    ELSE StoredRows(n - 1) + (IF dat_all[n].st = "ok" THEN Len(dat_all[n].in) ELSE 0)

\* C16 as stated: with warmup_percent = 10 and keep_percent = 50 a simulation
\* of raw_rows rows is stored with ceil(0.5 * floor(0.9 * raw_rows)) rows.
C16_StoredRowsFloorOfKept ==
    (args.warmup_percent = 10 /\ args.keep_percent = 50) =>
        \A s \in 1..Len(sims) :
            dat_all[s].st = "ok" =>
                Len(dat_all[s].in) = (((9 * Len(sims[s].rows)) \div 10) + 1) \div 2

\* C16, amended: process_sim drops the first floor(raw_rows * warmup_percent
\* / 100) rows and stores ceil(keep_percent / 100 * remaining) of the
\* remaining ones, which is ceil(0.5 * (raw_rows - floor(0.1 * raw_rows)))
\* for the defaults; the assembled dataset has as many rows as the
\* non-discarded simulations stored together.
C16_StoredRows ==
    /\ \A s \in 1..Len(sims) :
          dat_all[s].st = "ok" =>
              LET raw_rows == Len(sims[s].rows)
                  remaining == raw_rows - ((raw_rows * args.warmup_percent) \div 100)
              IN /\ Len(dat_all[s].in) = (remaining * args.keep_percent + 99) \div 100
                 /\ Len(dat_all[s].out) = Len(dat_all[s].in)
                 /\ (args.warmup_percent = 10 /\ args.keep_percent = 50) =>
                       Len(dat_all[s].in) = (raw_rows - (raw_rows \div 10) + 1) \div 2
    /\ (pc = "done" /\ err = "") => Len(ds.in) = StoredRows(Len(sims))

C16_Witness ==
    /\ pc = "done" /\ err = ""
    /\ args.warmup_percent = 10 /\ args.keep_percent = 50
    /\ Len(sims) = 2 /\ Len(sims[1].rows) = 1 /\ Len(sims[2].rows) = 2
    /\ Len(dat_all[1].in) = 1 /\ Len(dat_all[2].in) = 1 /\ Len(ds.in) = 2

DiscardKinds == {"load_fail", "non_finite_in", "non_finite_out"}

\* C17: a simulation that fails to load or that holds a non-finite value in
\* an input or output column is discarded and nothing else happens to the
\* batch: process_sim raises nothing for it, every other simulation is still
\* processed, the dataset is assembled from exactly the rows of the others,
\* and the printed number of discards is the number of sources minus the
\* number of surviving simulations.
C17_DiscardDoesNotAbort ==
    /\ \A s \in 1..Len(sims) :
          /\ sims[s].kind \in DiscardKinds => dat_all[s].st \in {"pending", "none"}
          /\ sims[s].kind = "ok" => dat_all[s].st \in {"pending", "ok"}
    /\ err = ErrInvalidClass => \E s \in 1..Len(sims) : sims[s].kind = "bad_class"
    /\ pc \in {"make_datasets", "done"} =>
          \A s \in 1..Len(sims) : dat_all[s].st # "pending"
    /\ discards # -1 =>
          /\ discards = Len(sims) -
                Cardinality({s \in 1..Len(sims) : dat_all[s].st = "ok"})
          /\ discards = Cardinality({s \in 1..Len(sims) : sims[s].kind \in DiscardKinds})
    /\ (pc = "done" /\ err = "") =>
          \A s \in 1..Len(sims) :
              Cardinality({i \in 1..Len(ds.in) : ds.in[i].id[1] = s}) =
                  Len(dat_all[s].in)

C17_Witness ==
    /\ pc = "done" /\ err = "" /\ Len(sims) = 2
    /\ sims[1].kind = "non_finite_in" /\ sims[2].kind = "ok"
    /\ discards = 1 /\ Len(ds.in) = Len(dat_all[2].in) /\ Len(ds.in) >= 1

\* make_datasets found every simulation discarded (or no simulation at all).
ZeroUsable ==
    discards # -1 /\ \A s \in 1..Len(sims) : dat_all[s].st # "ok"

\* C18: when every simulation is discarded, make_datasets fails with the
\* "No valid simulations found!" assertion, and neither a dataset nor a data
\* or scaling-parameter file is written, nor is any training run made.
C18_ZeroUsableIsFatal ==
    /\ ZeroUsable =>
          /\ pc = "error" /\ err = ErrNoSims
          /\ ds = EmptyDs
          /\ dat_flp # "new" /\ scl_prms_flp # "new"
          /\ apts = 0 /\ runs_returned = 0 /\ ress = <<>>
    /\ err = ErrNoSims => ZeroUsable

C18_Witness ==
    /\ pc = "error" /\ err = ErrNoSims /\ Len(sims) = 1 /\ discards = 1
    /\ dat_all[1].st = "none" /\ dat_flp = "absent" /\ apts = 0

\* C19 as stated: zero usable simulations raise no error in run_trials.
C19_ZeroUsableNotRaised ==
    ZeroUsable => (pc # "error" /\ err = "")

\* C19, amended: zero usable simulations end run_trials with the assertion
\* error of make_datasets and no value is returned; run_trials returns a
\* value only when a dataset was loaded or built, and the value is the
\* (NaN, NaN) sentinel exactly when no trial succeeded.
C19_ZeroUsableRaises ==
    /\ ZeroUsable => (pc = "error" /\ err = ErrNoSims /\ ~ret.set)
    /\ ret.set =>
          /\ pc = "done" /\ err = ""
          /\ dat_flp # "absent" /\ scl_prms_flp # "absent"
          /\ ret.nan <=> ress = <<>>

C19_Witness ==
    /\ pc = "error" /\ err = ErrNoSims /\ ~ret.set
    /\ args.regen_data /\ args.max_attempts >= 1 /\ sims = <<BadSim(1)>>

\* The values of the columns that share the scaling group of column f, and
\* whether they are all the same.
GroupValues(f) ==
    LET nf == scl_in.num_fets
        cells == [k \in 1..(Len(scl_in.dat) * nf) |->
                    <<((k - 1) % nf) + 1, scl_in.dat[((k - 1) \div nf) + 1][((k - 1) % nf) + 1]>>]
        own == SelectSeq(cells, LAMBDA c : scl_in.scl_grps[c[1]] = scl_in.scl_grps[f])
    IN [k \in 1..Len(own) |-> own[k][2]]
ConstantGroup(f) ==
    \A i, j \in 1..Len(GroupValues(f)) : GroupValues(f)[i] = GroupValues(f)[j]

\* C20: when scale_fets returns, in either mode, every column of a scaling
\* group whose pooled values are all equal is all zeros, no value of the
\* output comes from a division by zero, and under standardize a value that
\* equals the pooled mean of its (non-constant) group is scaled to 0.
C20_ConstantGroupScalesToZero ==
    pc = "done" =>
        \A f \in 1..scl_in.num_fets, r \in 1..Len(scl_in.dat) :
            LET x == scl_in.dat[r][f]
                y == scl_out.new[r][f]
                vals == GroupValues(f)
            IN /\ y.rad[1] # 0
               /\ ConstantGroup(f) => (y.num[1] = 0 /\ y.rad = <<1, 1>>)
               /\ (scl_in.standardize /\ ~ConstantGroup(f)
                     /\ x[1] * Len(vals) = FSum(vals)[1]) => y.num[1] = 0

C20_Witness ==
    /\ pc = "done" /\ scl_in.standardize /\ scl_in.scl_grps = <<0, 1>>
    /\ Len(scl_in.dat) = 2
    /\ scl_in.dat[1][1] = <<1, 1>> /\ scl_in.dat[2][1] = <<1, 1>>
    /\ scl_in.dat[1][2] # scl_in.dat[2][2]
    /\ scl_out.new[1][1].num[1] = 0 /\ scl_out.new[2][1].num[1] = 0
    /\ scl_out.new[1][2].num[1] # 0

\* x <= y for fractions.
FracLeq(x, y) == x[1] * y[2] <= y[1] * x[2]
PooledMin(f) == CHOOSE v \in {GroupValues(f)[k] : k \in 1..Len(GroupValues(f))} :
                    \A k \in 1..Len(GroupValues(f)) : FracLeq(v, GroupValues(f)[k])
PooledMax(f) == CHOOSE v \in {GroupValues(f)[k] : k \in 1..Len(GroupValues(f))} :
                    \A k \in 1..Len(GroupValues(f)) : FracLeq(GroupValues(f)[k], v)

\* C21 as stated: under range scaling every value equal to the pooled maximum
\* of its group is output as 1.
C21_PooledMaxMapsToOne ==
    (pc = "done" /\ ~scl_in.standardize) =>
        \A f \in 1..scl_in.num_fets, r \in 1..Len(scl_in.dat) :
            scl_in.dat[r][f] = PooledMax(f) => scl_out.new[r][f].num = <<1, 1>>

\* C21, amended: the parameter row of every feature is computed from the
\* pooled values of all columns of its group ((min, max), or (mean, std)
\* with the std held as the variance), features of one group have equal
\* rows and are transformed by them; under range scaling every output lies
\* in [0, 1], and in a group that is not constant the pooled minimum maps to
\* 0 and the pooled maximum to 1 (a constant group maps to 0 throughout).
C21_PooledGroupParameters ==
    pc = "done" =>
        \A f \in 1..scl_in.num_fets :
            LET vals == GroupValues(f)
                prm == scl_out.scl_prms[f]
            IN /\ \A h \in 1..scl_in.num_fets :
                     scl_in.scl_grps[h] = scl_in.scl_grps[f] => scl_out.scl_prms[h] = prm
               /\ IF scl_in.standardize
                  THEN /\ FracEq(FMul(prm[1], FInt(Len(vals))), FSum(vals))
                       /\ FracEq(prm[2], Variance(vals))
                  ELSE prm[1] = PooledMin(f) /\ prm[2] = PooledMax(f)
               /\ \A r \in 1..Len(scl_in.dat) :
                     LET x == scl_in.dat[r][f]
                         y == scl_out.new[r][f]
                     IN IF ConstantGroup(f) THEN y.num[1] = 0
                        ELSE IF scl_in.standardize
                        THEN y.num = FSub(x, prm[1]) /\ y.rad = prm[2]
                        ELSE /\ y.rad = <<1, 1>>
                             /\ FracEq(FMul(y.num, FSub(prm[2], prm[1])), FSub(x, prm[1]))
                             /\ FracLeq(<<0, 1>>, y.num) /\ FracLeq(y.num, <<1, 1>>)
                             /\ x = PooledMin(f) => y.num = <<0, 1>>
                             /\ x = PooledMax(f) => y.num = <<1, 1>>

C21_Witness ==
    /\ pc = "done" /\ ~scl_in.standardize /\ scl_in.scl_grps = <<0, 0>>
    /\ scl_in.dat = <<<<FInt(0), FInt(1)>>, <<FInt(1), FInt(2)>>>>
    /\ scl_out.scl_prms = <<<<FInt(0), FInt(2)>>, <<FInt(0), FInt(2)>>>>
    /\ scl_out.new[1][1].num = <<0, 1>> /\ scl_out.new[1][2].num = <<1, 2>>
    /\ scl_out.new[2][2].num = <<1, 1>>

\* C22: no two simulations of one batch are given the same scratch file:
\* the paths process_sim returned for two different sources are different.
C22_ScratchPathsDistinct ==
    \A s, t \in 1..Len(sims) :
        (s # t /\ dat_all[s].st = "saved" /\ dat_all[t].st = "saved") =>
            dat_all[s].flp # dat_all[t].flp

\* Where the parent's generator stands when synchronous mode reaches
\* simulation s: after the draws of the simulations before it.
RECURSIVE SyncPos(_)
SyncPos(s) ==
    IF s = 1 THEN 0
    ELSE SyncPos(s - 1)
         + NumToPick(NumAfterWarmup(Len(sims[s - 1].rows), args.warmup_percent),
                     args.keep_percent)

\* What synchronous mode stores for simulation s under the same seed.
SyncResult(s) ==
    LET num_rows == NumAfterWarmup(Len(sims[s].rows), args.warmup_percent)
        num_to_pick == NumToPick(num_rows, args.keep_percent)
    IN Processed(s, sims[s], args.warmup_percent,
                 [k \in 1..num_to_pick |-> rng.stream[SyncPos(s) + k]])

\* C24: for the same sources and the same seed the ingestion gives, with the
\* worker pool as in synchronous mode, the same per-simulation results, the
\* i-th result being that of the i-th source.
C24_PoolEqualsSync ==
    pc = "done" =>
        \A s \in 1..Len(sims) :
            /\ dat_all[s] = SyncResult(s)
            /\ \A k \in 1..Len(dat_all[s].in) : dat_all[s].in[k].id[1] = s

\* C26: the rows process_sim stores for a simulation are in the relative
\* order they have in the simulation's raw record.
C26_RowOrderPreserved ==
    \A p \in DOMAIN files :
        LET rows == files[p].content.in
        IN \A i, j \in 1..Len(rows) : i < j => rows[i].id[2] <= rows[j].id[2]

\* C23: two different configurations that run_cnfs evaluates never write
\* the same file: every file written has one configuration as its writer.
C23_ConfigurationSpecificPaths ==
    \A p \in DOMAIN files : Cardinality(files[p].writers) <= 1

\* The examples of the whole test set, batch after batch.
TstExamples == Concat(tst.ldr)

\* C25: when test returns, the accuracy is the number of correct predictions
\* over the number of predictions of the whole test set, every batch was
\* inferred in evaluation mode, and the model is in training mode.
C25_TestAccuracyAndMode ==
    (entry = "test" /\ pc = "done") =>
        /\ tst.acc = <<Cardinality({k \in 1..Len(TstExamples) : TstExamples[k]}),
                       Len(TstExamples)>>
        /\ Len(tst.modes) = Len(tst.ldr)
        /\ \A k \in 1..Len(tst.modes) : tst.modes[k] = "eval"
        /\ tst.mode = "train"

C25_Witness ==
    /\ entry = "test" /\ pc = "done"
    /\ tst.ldr = <<<<TRUE, FALSE>>, <<TRUE>>>>
    /\ tst.acc = <<2, 3>>
    /\ tst.modes = <<"eval", "eval">>
    /\ tst.mode = "train"

\* C27: whatever the group keys are, one per column, scale_fets returns, and
\* the parameter row of every feature is that of the feature's own group
\* (under range scaling the pooled minimum and maximum of the group).
C27_OpaqueGroupKeys ==
    (entry = "scale_fets" /\ pc # "scale_fets"
       /\ Len(scl_in.scl_grps) = scl_in.num_fets) =>
        /\ pc = "done"
        /\ scl_out.err = ""
        /\ ~scl_in.standardize =>
              \A f \in 1..scl_in.num_fets :
                  scl_out.scl_prms[f] = <<PooledMin(f), PooledMax(f)>>

C29_EarlyStopHasValidationLoader ==
    (entry = "run_trials" /\ args.model = "torch" /\ args.early_stop
       /\ objs # <<>>) =>
        /\ ldr_val # "None"
        /\ pc = "error" => num_vals >= 1

\* C30: in early-stopped training with val_patience >= 1 the remaining
\* patience is in 1..val_patience whenever a training batch starts, after
\* its initialisation it changes only in a validation pass, and with a
\* threshold >= 0 the best validation loss, once set, never increases.
C30_PatienceAndBestLoss ==
    /\ []((args.early_stop /\ args.val_patience >= 1 /\ pc = "batch") =>
            (0 < val_pat /\ val_pat <= args.val_patience))
    /\ [][(args.early_stop /\ pc # "train" /\ val_pat' # val_pat) =>
             pc = "validate"]_vars
    /\ [][(args.early_stop /\ args.val_improvement_thresh >= 0 /\ pc # "train"
             /\ los_val_min # None /\ los_val_min > 0 /\ los_val' > 0
             /\ los_val_min' # los_val_min) =>
             (pc = "validate" /\ los_val_min' = los_val' /\ los_val_min' < los_val_min)]_vars

C30_Witness ==
    /\ args.early_stop /\ pc = "batch" /\ args.val_patience = 2 /\ val_pat = 1
    /\ args.val_improvement_thresh = 0 /\ num_vals >= 2
    /\ los_val_min = 1 /\ los_val = 2 /\ ckpt_written
====
